---- MODULE Spec2Model ----
(***************************************************************************)
(* A model of update.py: the exchange-rate cache, combine_and_sort, the    *)
(* per-ticker Holding ledger (buy / sell / _add_dividends / summary),      *)
(* get_holdings, calc_twr and the benchmark alignment loop of              *)
(* get_benchmarks.                                                         *)
(*                                                                         *)
(* Conventions.                                                            *)
(*  - A calendar date is a day number 1..MaxDate.  datetime.today() is the *)
(*    day Today at some time after midnight, so instants are counted in    *)
(*    half days: midnight of day d is 2*d and "now" is 2*Today + 1.        *)
(*  - Money is kept in hundredths, so that the factor                      *)
(*    (1. - WITHHOLDING_TAX_RATE) is the integer 100 - 15.                 *)
(*  - A split ratio is a pair <<num, den>>; int(q * ratio) truncates       *)
(*    towards zero as Python's int() does.                                 *)
(*  - A raised Python exception is recorded by its class name.             *)
(*  - The date cell of a transaction row is text; parsing it forgets how   *)
(*    the day was written.                                                 *)
(***************************************************************************)
EXTENDS Integers, Sequences, FiniteSets, TLC

\* ------------------------------------------------------------------ bounds
MaxDate == 4
MaxQty == 2
MaxPrice == 1
MaxTrades == 4
MaxSplits == 1
MaxDividends == 2
MaxGHTrades == 2
MaxGHSplits == 1
MaxGHDividends == 0
MaxValuations == 3
MaxCalls == 5
MaxTransactions == 3
MaxRowDate == 2
MaxRowPrice == 2
MaxAdjustSplits == 2
MaxSnapshots == 2

\* ------------------------------------------------------- program constants
WITHHOLDING_TAX_RATE == 15

Today == MaxDate
Dates == 1..MaxDate
Ratios == {<<2, 1>>, <<1, 2>>}
\* Python's None where a date or a rate is expected (dates and rates are >= 1).
None == 0
NoError == "ok"

VARIABLES
    holdings,     \* get_holdings: ticker -> Holding object (dict `holdings`)
    order,        \* insertion order of the dict `holdings`
    trades,       \* the prefix of combine_and_sort's list consumed so far
    run,          \* "trades", "summaries", "returned" or "aborted"
    error,        \* the exception that ended the run, with the ticker it rose in
    summaries,    \* the summaries computed so far, in dict order
    result,       \* what get_holdings returned
    rates,        \* ExchangeRate._rates
    queries,      \* provider lookups issued, per currency
    fetched,      \* the rate the first lookup of a currency returned
    calls,        \* exchange_rate calls made outside summary()
    callers,      \* exchange_rate calls in progress, one per computation
    lastOp,       \* the last call made, with the state it found
    twrIn,        \* calc_twr: valuations and current_value
    twrOut,       \* calc_twr: total_return
    benchIn,      \* get_benchmarks: the date grid and the daily price rows
    benchOut,     \* get_benchmarks: summary["history"]
    csIn,         \* combine_and_sort: the rows pull_data read from the sheet
    csOut,        \* combine_and_sort: the list it returned
    adjIn,        \* a snapshot, a split list and a later date
    adjOut,       \* the snapshot quantity as buy/sell and _add_dividends adjust it
    divIn,        \* _add_dividends: the Holding it is called on
    divOut        \* _add_dividends: the list it returned

ledgerVars == <<holdings, order, trades, summaries, result>>
cacheVars == <<rates, queries, fetched, calls, callers>>
returnVars == <<twrIn, twrOut, benchIn, benchOut>>
sortVars == <<csIn, csOut, adjIn, adjOut, divIn, divOut>>

vars == <<holdings, order, trades, run, error, summaries, result,
          rates, queries, fetched, calls, callers, lastOp,
          twrIn, twrOut, benchIn, benchOut, csIn, csOut, adjIn, adjOut, divIn, divOut>>

\* ----------------------------------------------------------------- helpers
Last(s) == s[Len(s)]

Max(a, b) == IF a >= b THEN a ELSE b

\* IntMul with the ratio applied upside down.
IntMulInverted(q, r) ==
    IF q >= 0 THEN (q * r[2]) \div r[1] ELSE -(((-q) * r[2]) \div r[1])

\* int(quantity * split["split"]): Python's int() truncates towards zero.
IntMul(q, r) ==
    IF q >= 0 THEN (q * r[1]) \div r[2] ELSE -(((-q) * r[1]) \div r[2])

\* (a - b).days for two instants counted in half days, a >= b.
Days(a, b) == (a - b) \div 2

Midnight(d) == 2 * d

Now == 2 * Today + 1

\* ------------------------------------------------ provider data of a ticker
\* self._ticker.splits: ascending by date, at most one split a day.
RECURSIVE SplitListsFrom(_, _)
SplitListsFrom(lo, n) ==
    IF n = 0 THEN {<<>>}
    ELSE {<<>>} \cup
         UNION {{<<[date |-> d, split |-> r]>> \o rest :
                    rest \in SplitListsFrom(d + 1, n - 1)} :
                d \in lo..MaxDate, r \in Ratios}

\* self._dividends: ascending by date, per-share amount 1.
RECURSIVE DividendListsFrom(_, _)
DividendListsFrom(lo, n) ==
    IF n = 0 THEN {<<>>}
    ELSE {<<>>} \cup
         UNION {{<<[date |-> d, dividend |-> 1]>> \o rest :
                    rest \in DividendListsFrom(d + 1, n - 1)} :
                d \in lo..MaxDate}

Currencies == {"USD", "EUR", "GBP"}
ProviderRates == {2, 3}

\* Holding.__init__; the entries of self._info are drawn where summary()
\* reads them.
NewHolding(splits, dividends) ==
    [splits |-> splits, dividends |-> dividends,
     positions |-> <<>>, periods |-> <<>>,
     inflows |-> <<>>, outflows |-> <<>>]

\* ------------------------------------------------------------ Holding.buy
\* ReplaySplits taking a split dated on the trade date as one to apply.
RECURSIVE ReplaySplitsInclusive(_, _, _, _, _)
ReplaySplitsInclusive(splits, i, tdate, pdate, q) ==
    IF i > Len(splits) THEN [err |-> NoError, quantity |-> q]
    ELSE IF tdate < splits[i].date THEN [err |-> NoError, quantity |-> q]
    ELSE IF pdate = splits[i].date
         THEN [err |-> "AssertionError", quantity |-> q]
    ELSE IF splits[i].date > pdate
         THEN ReplaySplitsInclusive(splits, i + 1, tdate, pdate,
                                    IntMul(q, splits[i].split))
    ELSE ReplaySplitsInclusive(splits, i + 1, tdate, pdate, q)

\* The split replay loop of buy and sell: walks every split from the first,
\* and returns the carried quantity or the assertion that failed.
RECURSIVE ReplaySplits(_, _, _, _, _)
ReplaySplits(splits, i, tdate, pdate, q) ==
    IF i > Len(splits) THEN [err |-> NoError, quantity |-> q]
    ELSE IF tdate = splits[i].date
         THEN [err |-> "AssertionError", quantity |-> q]
    ELSE IF tdate <= splits[i].date THEN [err |-> NoError, quantity |-> q]
    ELSE IF pdate = splits[i].date
         THEN [err |-> "AssertionError", quantity |-> q]
    ELSE IF splits[i].date > pdate
         THEN ReplaySplits(splits, i + 1, tdate, pdate, IntMul(q, splits[i].split))
    ELSE ReplaySplits(splits, i + 1, tdate, pdate, q)

\* The last snapshot merged with, or followed by, the traded quantity.
Record(positions, date, carried, delta) ==
    IF Len(positions) > 0 /\ Last(positions).date = date
    THEN [positions EXCEPT ![Len(positions)].quantity = @ + delta]
    ELSE Append(positions, [date |-> date, quantity |-> carried + delta])

Buy(h, trade) ==
    LET current0 == IF Len(h.positions) = 0 THEN 0 ELSE Last(h.positions).quantity
        replay == IF current0 # 0 /\ trade.date > Last(h.positions).date
                  THEN ReplaySplits(h.splits, 1, trade.date,
                                    Last(h.positions).date, current0)
                  ELSE [err |-> NoError, quantity |-> current0]
        periods == IF current0 = 0
                   THEN Append(h.periods, [start |-> trade.date, end |-> None])
                   ELSE h.periods
    IN  IF replay.err # NoError THEN [err |-> replay.err, h |-> h]
        ELSE [err |-> NoError,
              h |-> [h EXCEPT
                       !.periods = periods,
                       !.inflows = Append(@, [date |-> trade.date,
                                              value |-> trade.quantity * trade.price * 100]),
                       !.positions = Record(@, trade.date, replay.quantity,
                                            trade.quantity)]]

\* ----------------------------------------------------------- Holding.sell
\* ClosePeriod testing the carried quantity instead of what the SELL leaves.
ClosePeriodCarried(periods, carried, trade) ==
    IF carried = 0
    THEN [periods EXCEPT ![Len(periods)].end = trade.date]
    ELSE periods

\* ClosePeriod leaving the period open whatever the SELL leaves.
ClosePeriodNever(periods, carried, trade) == periods

ClosePeriod(periods, carried, trade) ==
    IF carried - trade.quantity = 0
    THEN [periods EXCEPT ![Len(periods)].end = trade.date]
    ELSE periods

Sell(h, trade) ==
    IF Len(h.positions) = 0 THEN [err |-> "IndexError", h |-> h]
    ELSE
    LET current0 == Last(h.positions).quantity
        replay == IF trade.date > Last(h.positions).date
                  THEN ReplaySplits(h.splits, 1, trade.date,
                                    Last(h.positions).date, current0)
                  ELSE [err |-> NoError, quantity |-> current0]
    IN  IF replay.err # NoError THEN [err |-> replay.err, h |-> h]
        ELSE [err |-> NoError,
              h |-> [h EXCEPT
                       !.periods = ClosePeriod(@, replay.quantity, trade),
                       !.outflows = Append(@, [date |-> trade.date,
                                               value |-> trade.quantity * trade.price * 100]),
                       !.positions = Record(@, trade.date, replay.quantity,
                                            -trade.quantity)]]

\* ------------------------------------------------- Holding._add_dividends
\* AdvancePosition moving on to a snapshot dated on the dividend date too.
RECURSIVE AdvancePositionInclusive(_, _, _)
AdvancePositionInclusive(positions, pi, ddate) ==
    IF /\ ddate > positions[pi].date
       /\ pi + 1 <= Len(positions)
       /\ positions[pi + 1].date <= ddate
    THEN AdvancePositionInclusive(positions, pi + 1, ddate)
    ELSE pi

\* The while loop: moves to the next snapshot as long as that one is dated
\* before the dividend.
RECURSIVE AdvancePosition(_, _, _)
AdvancePosition(positions, pi, ddate) ==
    IF /\ ddate > positions[pi].date
       /\ pi + 1 <= Len(positions)
       /\ positions[pi + 1].date < ddate
    THEN AdvancePosition(positions, pi + 1, ddate)
    ELSE pi

\* DividendSplits without the test split["date"] > position["date"]: every
\* split before the dividend is applied, also those the snapshot includes.
RECURSIVE DividendSplitsAll(_, _, _, _, _, _)
DividendSplitsAll(splits, j, si, ddate, pdate, q) ==
    IF j > Len(splits) THEN [err |-> NoError, quantity |-> q, split_idx |-> si]
    ELSE IF ddate <= splits[j].date
         THEN [err |-> NoError, quantity |-> q, split_idx |-> si]
    ELSE IF splits[j].date = pdate
         THEN [err |-> "AssertionError", quantity |-> q, split_idx |-> si]
    ELSE DividendSplitsAll(splits, j + 1, si, ddate, pdate,
                           IntMul(q, splits[j].split))

\* DividendSplits applying a split dated on the dividend date as well.
RECURSIVE DividendSplitsInclusive(_, _, _, _, _, _)
DividendSplitsInclusive(splits, j, si, ddate, pdate, q) ==
    IF j > Len(splits) THEN [err |-> NoError, quantity |-> q, split_idx |-> si]
    ELSE IF ddate < splits[j].date
         THEN [err |-> NoError, quantity |-> q, split_idx |-> si]
    ELSE IF splits[j].date = pdate
         THEN [err |-> "AssertionError", quantity |-> q, split_idx |-> si]
    ELSE IF splits[j].date > pdate
         THEN DividendSplitsInclusive(splits, j + 1, si, ddate, pdate,
                                      IntMul(q, splits[j].split))
    ELSE DividendSplitsInclusive(splits, j + 1, si + 1, ddate, pdate, q)

\* DividendSplits without its assertion: a split dated on the snapshot date
\* is passed over like an earlier one.
RECURSIVE DividendSplitsNoAssert(_, _, _, _, _, _)
DividendSplitsNoAssert(splits, j, si, ddate, pdate, q) ==
    IF j > Len(splits) THEN [err |-> NoError, quantity |-> q, split_idx |-> si]
    ELSE IF ddate <= splits[j].date
         THEN [err |-> NoError, quantity |-> q, split_idx |-> si]
    ELSE IF splits[j].date > pdate
         THEN DividendSplitsNoAssert(splits, j + 1, si, ddate, pdate,
                                     IntMul(q, splits[j].split))
    ELSE DividendSplitsNoAssert(splits, j + 1, si + 1, ddate, pdate, q)

\* The loop over self._splits[split_idx:], j being the split visited.
RECURSIVE DividendSplits(_, _, _, _, _, _)
DividendSplits(splits, j, si, ddate, pdate, q) ==
    IF j > Len(splits) THEN [err |-> NoError, quantity |-> q, split_idx |-> si]
    ELSE IF ddate <= splits[j].date
         THEN [err |-> NoError, quantity |-> q, split_idx |-> si]
    ELSE IF splits[j].date = pdate
         THEN [err |-> "AssertionError", quantity |-> q, split_idx |-> si]
    ELSE IF splits[j].date > pdate
         THEN DividendSplits(splits, j + 1, si, ddate, pdate, IntMul(q, splits[j].split))
    ELSE DividendSplits(splits, j + 1, si + 1, ddate, pdate, q)

DividendValue(quantity, dividend) ==
    quantity * dividend * (100 - WITHHOLDING_TAX_RATE)

\* The loop over self._dividends, k being the dividend visited; pi and si are
\* position_idx + 1 and split_idx + 1.
RECURSIVE AddDividendsFrom(_, _, _, _, _)
AddDividendsFrom(h, k, pi, si, outflows) ==
    IF k > Len(h.dividends) \/ pi > Len(h.positions)
    THEN [err |-> NoError, outflows |-> outflows]
    ELSE
    LET d == h.dividends[k]
        pi2 == AdvancePosition(h.positions, pi, d.date)
        position == h.positions[pi2]
    IN  IF d.date > position.date /\ position.quantity > 0
        THEN LET s == DividendSplits(h.splits, si, si, d.date, position.date,
                                     position.quantity)
             IN  IF s.err # NoError THEN [err |-> s.err, outflows |-> outflows]
                 ELSE AddDividendsFrom(h, k + 1, pi2, s.split_idx,
                          Append(outflows,
                                 [date |-> d.date,
                                  value |-> DividendValue(s.quantity, d.dividend)]))
        ELSE AddDividendsFrom(h, k + 1, pi2, si, outflows)

AddDividends(h) == AddDividendsFrom(h, 1, 1, 1, h.outflows)

\* --------------------------------------------------------- ExchangeRate
\* The answer of a provider lookup that raised.
Fail == 0

\* ExchangeRateCall that returns the looked-up rate without keeping it.
ExchangeRateCallNoStore(c, currency, answer) ==
    IF currency = "USD" THEN [err |-> NoError, value |-> 1, cache |-> c]
    ELSE IF currency \in DOMAIN c.rates
         THEN [err |-> NoError, value |-> c.rates[currency], cache |-> c]
    ELSE LET asked == [c EXCEPT !.queries[currency] = @ + 1,
                                !.fetched[currency] =
                                    IF @ = None /\ answer # Fail THEN answer ELSE @]
         IN  IF answer = Fail
             THEN [err |-> "ProviderError", value |-> 0, cache |-> asked]
             ELSE [err |-> NoError, value |-> answer, cache |-> asked]

\* ExchangeRate.__call__ on the cache c = [rates, queries, fetched], the
\* provider answering `answer` if it is asked.
ExchangeRateCall(c, currency, answer) ==
    IF currency = "USD" THEN [err |-> NoError, value |-> 1, cache |-> c]
    ELSE IF currency \in DOMAIN c.rates
         THEN [err |-> NoError, value |-> c.rates[currency], cache |-> c]
    ELSE LET asked == [c EXCEPT !.queries[currency] = @ + 1,
                                !.fetched[currency] =
                                    IF @ = None /\ answer # Fail THEN answer ELSE @]
         IN  IF answer = Fail
             THEN [err |-> "ProviderError", value |-> 0, cache |-> asked]
             ELSE [err |-> NoError, value |-> answer,
                   cache |-> [asked EXCEPT !.rates = (currency :> answer) @@ @]]

\* -------------------------------------------------------- Holding.summary
RECURSIVE SeqSum(_)
SeqSum(s) == IF Len(s) = 0 THEN 0 ELSE s[1] + SeqSum(Tail(s))

PeriodEnd(period) == IF period.end = None THEN Now ELSE Midnight(period.end)

\* Lines 213-224 for one period; inflow dates are days, outflow dates instants.
\* avgCapLen is avg_capital * length; counted_in and counted_out are the places
\* of the inflows and outflows that passed the tests of lines 218 and 221.
PeriodStats(inflows, outs, period) ==
    LET start == Midnight(period.start)
        end == PeriodEnd(period)
        length == Max(Days(end, start), 1)
        inIn(f) == start <= Midnight(f.date) /\ Midnight(f.date) < end
        outIn(f) == start < f.date /\ f.date <= end
    IN  [start |-> start, end |-> end, length |-> length,
         counted_in |-> {i \in 1..Len(inflows) : inIn(inflows[i])},
         counted_out |-> {i \in 1..Len(outs) : outIn(outs[i])},
         gain |-> SeqSum([i \in 1..Len(outs) |->
                            IF outIn(outs[i]) THEN outs[i].value ELSE 0])
                  - SeqSum([i \in 1..Len(inflows) |->
                            IF inIn(inflows[i]) THEN inflows[i].value ELSE 0]),
         avgCapLen |-> SeqSum([i \in 1..Len(inflows) |->
                            IF inIn(inflows[i])
                            THEN Max(Days(end, Midnight(inflows[i].date)), 1)
                                 * inflows[i].value
                            ELSE 0])
                  - SeqSum([i \in 1..Len(outs) |->
                            IF outIn(outs[i])
                            THEN Days(end, outs[i].date) * outs[i].value
                            ELSE 0])]

Sign(x) == IF x > 0 THEN 1 ELSE IF x < 0 THEN -1 ELSE 0

\* The loop over self._periods; sgn is the sign of tsr.
RECURSIVE PeriodLoop(_, _, _, _, _, _)
PeriodLoop(h, price, i, outs, stats, sgn) ==
    IF i > Len(h.periods)
    THEN [err |-> NoError, outflows |-> outs, stats |-> stats, sgn |-> sgn]
    ELSE
    LET period == h.periods[i]
        outs2 == IF period.end = None
                 THEN Append(outs, [date |-> Now,
                                    value |-> Last(h.positions).quantity * price * 100])
                 ELSE outs
        st == PeriodStats(h.inflows, outs2, period)
    IN  IF st.avgCapLen = 0
        THEN [err |-> "ZeroDivisionError", outflows |-> outs2,
              stats |-> Append(stats, st), sgn |-> sgn]
        ELSE PeriodLoop(h, price, i + 1, outs2, Append(stats, st),
                        sgn * Sign(st.avgCapLen + st.gain * st.length)
                            * Sign(st.avgCapLen))

Reverse(s) == [i \in 1..Len(s) |-> s[Len(s) + 1 - i]]

\* summary() of holding h of `ticker`, self._info holding `price` and
\* `currency`, on the exchange-rate cache c.  A negative tsr makes cagr a
\* complex number, which round() rejects with a TypeError.
Summary(h, ticker, price, currency, c, answer) ==
    LET div == AddDividends(h)
        loop == PeriodLoop(h, price, 1,
                           [i \in 1..Len(div.outflows) |->
                               [date |-> Midnight(div.outflows[i].date),
                                value |-> div.outflows[i].value]],
                           <<>>, 1)
        fx == ExchangeRateCall(c, currency, answer)
        quantity == Last(h.positions).quantity
        none == [ticker |-> ticker]
    IN  IF div.err # NoError
        THEN [err |-> div.err, summary |-> none, cache |-> c, stats |-> <<>>,
              outflows |-> <<>>, added |-> <<>>]
        ELSE IF loop.err # NoError
        THEN [err |-> loop.err, summary |-> none, cache |-> c,
              stats |-> loop.stats, outflows |-> loop.outflows,
              added |-> div.outflows]
        ELSE IF fx.err # NoError
        THEN [err |-> fx.err, summary |-> none, cache |-> fx.cache,
              stats |-> loop.stats, outflows |-> loop.outflows,
              added |-> div.outflows]
        ELSE IF loop.sgn < 0
        THEN [err |-> "TypeError", summary |-> none, cache |-> fx.cache,
              stats |-> loop.stats, outflows |-> loop.outflows,
              added |-> div.outflows]
        ELSE [err |-> NoError,
              summary |-> [ticker |-> ticker,
                           is_current |-> quantity > 0,
                           current_value_usd |-> quantity * price * fx.value,
                           periods |-> Reverse(h.periods),
                           latest_buy |-> Last(h.inflows).date,
                           latest_sell |-> IF Len(h.outflows) > 0
                                           THEN Last(h.outflows).date ELSE None],
              cache |-> fx.cache, stats |-> loop.stats, outflows |-> loop.outflows,
              added |-> div.outflows]

\* ----------------------------------------------------------- get_holdings
Actions == {"BUY", "SELL"}

\* What combine_and_sort returns: trades in date order and, within a date,
\* grouped by ticker in one fixed ticker order (the order of the dict
\* `trades`).  A ticker may have several trades on one date, in any order of
\* BUY and SELL: the rows are grouped by the text of their date cell, and one
\* calendar day can be written in several ways.
SortedTrades(s, tickers) ==
    /\ \A i, j \in 1..Len(s) : i < j => s[i].date <= s[j].date
    /\ \E rank \in [tickers -> 1..Cardinality(tickers)] :
          \A i, j \in 1..Len(s) :
              (i < j /\ s[i].date = s[j].date /\ s[i].ticker # s[j].ticker)
                  => rank[s[i].ticker] < rank[s[j].ticker]

\* yf.Ticker(ticker) / get_info() raising in Holding.__init__.
FailedHolding == [failed |-> TRUE]

\* What the provider may hold about a ticker when its Holding is built.
NewHoldingsOf(maxSplits, maxDividends) ==
    {NewHolding(sp, dv) : sp \in SplitListsFrom(1, maxSplits),
                          dv \in DividendListsFrom(1, maxDividends)}

NewHoldings == NewHoldingsOf(MaxSplits, MaxDividends)

TradeOutcome(h, trade) ==
    IF "failed" \in DOMAIN h THEN [err |-> "ProviderError", h |-> h]
    ELSE IF trade.action = "BUY" THEN Buy(h, trade)
    ELSE Sell(h, trade)

NoOp == [op |-> "init", ticker |-> "", err |-> NoError]

\* One iteration of the loop over trades (lines 288-295).
GetHoldingsTrade(tickers, maxTrades, fresh) ==
    /\ run = "trades"
    /\ Len(trades) < maxTrades
    /\ \E t \in tickers, d \in Dates, a \in Actions,
          q \in 1..MaxQty, p \in 1..MaxPrice :
       \E h \in IF t \in DOMAIN holdings THEN {holdings[t]}
                ELSE fresh \cup {FailedHolding} :
          LET trade == [date |-> d, ticker |-> t, quantity |-> q,
                        price |-> p, action |-> a]
              failed == "failed" \in DOMAIN h
          IN  \E r \in {TradeOutcome(h, trade)} :
              /\ SortedTrades(Append(trades, trade), tickers)
              /\ trades' = Append(trades, trade)
              /\ holdings' = IF failed THEN holdings ELSE (t :> r.h) @@ holdings
              /\ order' = IF failed \/ t \in DOMAIN holdings THEN order
                          ELSE Append(order, t)
              /\ run' = IF r.err = NoError THEN "trades" ELSE "aborted"
              /\ error' = IF r.err = NoError THEN error
                          ELSE [kind |-> r.err, ticker |-> t]
              /\ lastOp' = [op |-> IF failed THEN "Holding" ELSE a,
                            ticker |-> t, trade |-> trade,
                            before |-> h, err |-> r.err]
              /\ UNCHANGED <<summaries, result, cacheVars, returnVars, sortVars>>

Cache == [rates |-> rates, queries |-> queries, fetched |-> fetched]

\* One iteration of the loop over holdings.values() (lines 299-304).
GetHoldingsSummary(currencies) ==
    /\ run \in {"trades", "summaries"}
    /\ Len(summaries) < Len(order)
    /\ \E price \in 1..MaxPrice, currency \in currencies,
          answer \in ProviderRates \cup {Fail} :
          LET t == order[Len(summaries) + 1]
          IN  \E r \in {Summary(holdings[t], t, price, currency, Cache, answer)} :
              /\ rates' = r.cache.rates
              /\ queries' = r.cache.queries
              /\ fetched' = r.cache.fetched
              /\ run' = IF r.err = NoError THEN "summaries" ELSE "aborted"
              /\ error' = IF r.err = NoError THEN error
                          ELSE [kind |-> r.err, ticker |-> t]
              /\ summaries' = IF r.err = NoError THEN Append(summaries, r.summary)
                              ELSE summaries
              /\ lastOp' = [op |-> "summary", ticker |-> t, err |-> r.err,
                            price |-> price, currency |-> currency,
                            stats |-> r.stats, outflows |-> r.outflows,
                            added |-> r.added]
              /\ UNCHANGED <<holdings, order, trades, result, calls, callers, returnVars,
                             sortVars>>

\* sorted(..., reverse=True): stable, the larger key first.
RECURSIVE SortDesc(_, _)
SortDesc(s, key) ==
    IF Len(s) = 0 THEN <<>>
    ELSE LET rest == SortDesc(SubSeq(s, 1, Len(s) - 1), key)
             x == Last(s)
             n == Cardinality({i \in 1..Len(rest) : rest[i][key] >= x[key]})
         IN  SubSeq(rest, 1, n) \o <<x>> \o SubSeq(rest, n + 1, Len(rest))

SelectSeq2(s, current) ==
    SelectSeq(s, LAMBDA x : x.is_current = current)

\* Lines 306-307; comparing a latest_sell of None raises a TypeError.
GetHoldingsReturn ==
    /\ run \in {"trades", "summaries"}
    /\ Len(summaries) = Len(order)
    /\ LET current == SelectSeq2(summaries, TRUE)
           historical == SelectSeq2(summaries, FALSE)
           bad == /\ Len(historical) >= 2
                  /\ \E i \in 1..Len(historical) : historical[i].latest_sell = None
       IN  /\ run' = IF bad THEN "aborted" ELSE "returned"
           /\ error' = IF bad THEN [kind |-> "TypeError", ticker |-> ""] ELSE error
           /\ result' = IF bad THEN result
                        ELSE [current |-> SortDesc(current, "latest_buy"),
                              historical |-> SortDesc(historical, "latest_sell")]
    /\ lastOp' = [op |-> "return", ticker |-> "", err |-> NoError]
    /\ UNCHANGED <<holdings, order, trades, summaries, cacheVars, returnVars, sortVars>>

NoResult == [current |-> <<>>, historical |-> <<>>]

\* The computations that may be inside exchange_rate at one time, and one
\* that is not.
Computations == {1, 2}
Idle == [pc |-> "idle", currency |-> "USD", pending |-> None, err |-> NoError,
         value |-> None]
NotRun == [done |-> FALSE]

\* The state main() starts from: nothing traded, the cache empty.
Start ==
    /\ holdings = <<>>
    /\ order = <<>>
    /\ trades = <<>>
    /\ run = "trades"
    /\ error = [kind |-> NoError, ticker |-> ""]
    /\ summaries = <<>>
    /\ result = NoResult
    /\ rates = <<>>
    /\ queries = [c \in Currencies |-> 0]
    /\ fetched = [c \in Currencies |-> None]
    /\ calls = 0
    /\ callers = [c \in Computations |-> Idle]
    /\ lastOp = NoOp

NoTwr == [valuations |-> <<>>, current_value |-> 1]
NoBench == [grid |-> <<>>, rows |-> <<>>]
NoSort == csIn = <<>> /\ csOut = NotRun
NoAdjust == adjIn = [date |-> 1, quantity |-> 1, splits |-> <<>>, later |-> 2]
            /\ adjOut = NotRun
NoAddDividends == divIn = NewHolding(<<>>, <<>>) /\ divOut = NotRun

Init ==
    /\ Start
    /\ twrIn = NoTwr
    /\ twrOut = NotRun
    /\ benchIn = NoBench
    /\ benchOut = NotRun
    /\ NoSort
    /\ NoAdjust
    /\ NoAddDividends

Next ==
    \/ GetHoldingsTrade({"T1"}, MaxTrades, NewHoldings)
    \/ GetHoldingsSummary({"USD"})
    \/ GetHoldingsReturn

Spec == Init /\ [][Next]_vars

\* get_holdings over two tickers.
NextGH ==
    \/ GetHoldingsTrade({"T1", "T2"}, MaxGHTrades,
                        NewHoldingsOf(MaxGHSplits, MaxGHDividends))
    \/ GetHoldingsSummary({"USD", "EUR"})
    \/ GetHoldingsReturn

SpecGH == Init /\ [][NextGH]_vars

\* exchange_rate(currency) called for a cash position by summarize()
\* (line 648); an exception of the provider ends the run.
ExchangeRateLookup ==
    /\ run # "aborted"
    /\ calls < MaxCalls
    /\ \E currency \in Currencies, answer \in ProviderRates \cup {Fail} :
       \E r \in {ExchangeRateCall(Cache, currency, answer)} :
          /\ rates' = r.cache.rates
          /\ queries' = r.cache.queries
          /\ fetched' = r.cache.fetched
          /\ calls' = calls + 1
          /\ run' = IF r.err = NoError THEN run ELSE "aborted"
          /\ error' = IF r.err = NoError THEN error
                      ELSE [kind |-> r.err, ticker |-> ""]
          /\ lastOp' = [op |-> "exchange_rate", ticker |-> "", err |-> r.err,
                        currency |-> currency, value |-> r.value,
                        before |-> Cache]
    /\ UNCHANGED <<ledgerVars, callers, returnVars, sortVars>>

NextFx == ExchangeRateLookup

SpecFx == Init /\ [][NextFx]_vars

\* ExchangeRate.__call__ entered by two computations at once.  The method has
\* no lock, so each of its steps is taken on its own: the test for USD (line
\* 22), the read of the cache (line 25), the provider lookup on the right of
\* line 27, the store on its left, and the read of line 28.
\* What a step inside exchange_rate leaves alone.
OutsideCache ==
    /\ lastOp' = [op |-> "exchange_rate", ticker |-> "", err |-> NoError]
    /\ UNCHANGED <<ledgerVars, run, error, calls, returnVars, sortVars>>

Enter(c) ==
    /\ OutsideCache
    /\ callers[c].pc = "idle"
    /\ \E currency \in Currencies :
          callers' = [callers EXCEPT ![c] =
                        IF currency = "USD"
                        THEN [Idle EXCEPT !.pc = "done", !.value = 1]
                        ELSE [Idle EXCEPT !.pc = "read", !.currency = currency]]
    /\ UNCHANGED <<rates, queries, fetched>>

ReadCache(c) ==
    /\ OutsideCache
    /\ callers[c].pc = "read"
    /\ callers' = [callers EXCEPT ![c] =
                     IF callers[c].currency \in DOMAIN rates
                     THEN [callers[c] EXCEPT !.pc = "done",
                                             !.value = rates[callers[c].currency]]
                     ELSE [callers[c] EXCEPT !.pc = "lookup"]]
    /\ UNCHANGED <<rates, queries, fetched>>

ProviderLookup(c) ==
    /\ OutsideCache
    /\ callers[c].pc = "lookup"
    /\ \E answer \in ProviderRates \cup {Fail} :
          /\ queries' = [queries EXCEPT ![callers[c].currency] = @ + 1]
          /\ fetched' = [fetched EXCEPT ![callers[c].currency] =
                            IF @ = None /\ answer # Fail THEN answer ELSE @]
          /\ callers' = [callers EXCEPT ![c] =
                           IF answer = Fail
                           THEN [callers[c] EXCEPT !.pc = "done",
                                                   !.err = "ProviderError"]
                           ELSE [callers[c] EXCEPT !.pc = "store",
                                                   !.pending = answer]]
    /\ UNCHANGED rates

StoreRate(c) ==
    /\ OutsideCache
    /\ callers[c].pc = "store"
    /\ rates' = (callers[c].currency :> callers[c].pending) @@ rates
    /\ callers' = [callers EXCEPT ![c].pc = "return"]
    /\ UNCHANGED <<queries, fetched>>

ReturnRate(c) ==
    /\ OutsideCache
    /\ callers[c].pc = "return"
    /\ callers' = [callers EXCEPT ![c] =
                     [callers[c] EXCEPT !.pc = "done",
                                        !.value = rates[callers[c].currency]]]
    /\ UNCHANGED <<rates, queries, fetched>>

NextRace ==
    \E c \in Computations :
        \/ Enter(c)
        \/ ReadCache(c)
        \/ ProviderLookup(c)
        \/ StoreRate(c)
        \/ ReturnRate(c)

SpecRace == Init /\ [][NextRace]_vars

\* --------------------------------------------------------------- calc_twr
ValuationValues == {100, 110}
ValuationFlows == {-100, 0, 10}
CurrentValues == {110, 121}

\* The rows of the "Return" sheet: one per date, in any order.
RECURSIVE ValuationListsOf(_, _)
ValuationListsOf(n, free) ==
    IF n = 0 THEN {<<>>}
    ELSE {<<>>} \cup
         UNION {{<<[date |-> d, value |-> v, flow |-> f]>> \o rest :
                    rest \in ValuationListsOf(n - 1, free \ {d})} :
                d \in free, v \in ValuationValues, f \in ValuationFlows}

Abs(x) == IF x < 0 THEN -x ELSE x

RECURSIVE Gcd(_, _)
Gcd(a, b) == IF b = 0 THEN a ELSE Gcd(b, a % b)

\* A float, kept as the exact fraction n/d in lowest terms with d > 0.
Rat(n, d) ==
    LET g == Gcd(Abs(n), Abs(d))
    IN  IF d < 0 THEN <<(-n) \div g, (-d) \div g>> ELSE <<n \div g, d \div g>>

\* x * (n / d)
RatMul(x, n, d) == Rat(x[1] * n, x[2] * d)

\* round(n / d) for d > 0, ties to even.
RoundHalfEven(n, d) ==
    LET q == n \div d
        r == n - q * d
    IN  IF 2 * r < d THEN q
        ELSE IF 2 * r > d THEN q + 1
        ELSE IF q % 2 = 0 THEN q ELSE q + 1

\* sorted(s, key=...): stable, the smaller key first.
RECURSIVE SortAsc(_, _)
SortAsc(s, key) ==
    IF Len(s) = 0 THEN <<>>
    ELSE LET rest == SortAsc(SubSeq(s, 1, Len(s) - 1), key)
             x == Last(s)
             n == Cardinality({i \in 1..Len(rest) : rest[i][key] <= x[key]})
         IN  SubSeq(rest, 1, n) \o <<x>> \o SubSeq(rest, n + 1, Len(rest))

\* TwrLoop with the baseline reset to the value alone, the flow left out.
RECURSIVE TwrLoopNoFlow(_, _, _, _, _)
TwrLoopNoFlow(v, i, start_value, twr, history) ==
    IF i > Len(v)
    THEN [err |-> NoError, start_value |-> start_value, twr |-> twr,
          history |-> history]
    ELSE IF start_value = 0
    THEN [err |-> "ZeroDivisionError", start_value |-> start_value, twr |-> twr,
          history |-> history]
    ELSE TwrLoopNoFlow(v, i + 1, v[i].value,
                       RatMul(twr, v[i].value, start_value),
                       Append(history, [date |-> Midnight(v[i].date),
                                        twr |-> RatMul(twr, v[i].value, start_value)]))

\* The loop over valuations[1:] (lines 625-628), i being the row visited.
RECURSIVE TwrLoop(_, _, _, _, _)
TwrLoop(v, i, start_value, twr, history) ==
    IF i > Len(v)
    THEN [err |-> NoError, start_value |-> start_value, twr |-> twr,
          history |-> history]
    ELSE IF start_value = 0
    THEN [err |-> "ZeroDivisionError", start_value |-> start_value, twr |-> twr,
          history |-> history]
    ELSE TwrLoop(v, i + 1, v[i].value + v[i].flow,
                 RatMul(twr, v[i].value, start_value),
                 Append(history, [date |-> Midnight(v[i].date),
                                  twr |-> RatMul(twr, v[i].value, start_value)]))

\* calc_twr; pct10 is twr% in tenths.  cagr is a power of twr: it is not
\* computed here, only its failure is (a negative twr gives a complex cagr,
\* which round() rejects).
CalcTwr(valuations, current_value) ==
    IF Len(valuations) = 0
    THEN [done |-> TRUE, err |-> NoError, start_date |-> Now, history |-> <<>>,
          twr |-> <<1, 1>>, pct10 |-> 0]
    ELSE
    LET v == SortAsc(valuations, "date")
        loop == TwrLoop(v, 2, v[1].value + v[1].flow, <<1, 1>>,
                        <<[date |-> Midnight(v[1].date), twr |-> <<1, 1>>]>>)
        twr == RatMul(loop.twr, current_value, loop.start_value)
        failed(kind) == [done |-> TRUE, err |-> kind,
                         start_date |-> Midnight(v[1].date),
                         history |-> loop.history, twr |-> loop.twr, pct10 |-> 0]
    IN  IF loop.err # NoError THEN failed(loop.err)
        ELSE IF loop.start_value = 0 THEN failed("ZeroDivisionError")
        ELSE IF twr[1] < 0 THEN failed("TypeError")
        ELSE [done |-> TRUE, err |-> NoError,
              start_date |-> Midnight(v[1].date),
              history |-> Append(loop.history, [date |-> Now, twr |-> twr]),
              twr |-> twr,
              pct10 |-> RoundHalfEven(1000 * (twr[1] - twr[2]), twr[2])]

CalcTwrCall ==
    /\ ~twrOut.done
    /\ twrOut' = CalcTwr(twrIn.valuations, twrIn.current_value)
    /\ lastOp' = [op |-> "calc_twr", ticker |-> "", err |-> twrOut'.err]
    /\ UNCHANGED <<ledgerVars, run, error, cacheVars, twrIn, benchIn, benchOut, sortVars>>

InitTwr ==
    /\ Start
    /\ twrIn \in {[valuations |-> v, current_value |-> c] :
                    v \in ValuationListsOf(MaxValuations, Dates),
                    c \in CurrentValues}
    /\ twrOut = NotRun
    /\ benchIn = NoBench
    /\ benchOut = NotRun
    /\ NoSort
    /\ NoAdjust
    /\ NoAddDividends

NextTwr == CalcTwrCall

SpecTwr == InitTwr /\ [][NextTwr]_vars

\* --------------------------------------------------------- get_benchmarks
\* The close and the open of the benchmark on trading day d.
Close(d) == 10 + d
Open(d) == 9 + d

\* Python's s[i] for a 0-based index i that may be -1 (the last element).
At(s, i) == IF i < 0 THEN s[Len(s) + 1 + i] ELSE s[i + 1]

\* The loop over history.itertuples() (lines 697-711): idx is the 0-based row,
\* ref_idx the 0-based index into total_return_history.  An appended pair
\* keeps the close it was computed from (the price is close / start_price).
RECURSIVE AlignLoop(_, _, _, _, _)
AlignLoop(grid, rows, idx, ref_idx, history) ==
    IF idx >= Len(rows) THEN [err |-> NoError, history |-> history]
    ELSE IF ref_idx >= Len(grid) THEN [err |-> "IndexError", history |-> history]
    ELSE
    LET date == At(rows, idx).date
        ref_date == At(grid, ref_idx)
    IN  IF date < ref_date
        THEN AlignLoop(grid, rows, idx + 1, ref_idx, history)
        ELSE IF date = ref_date
        THEN AlignLoop(grid, rows, idx + 1, ref_idx + 1,
                       Append(history, [date |-> ref_date,
                                        close |-> At(rows, idx).close]))
        ELSE
        LET h1 == Append(history, [date |-> ref_date,
                                   close |-> At(rows, idx - 1).close])
        IN  IF ref_idx + 1 >= Len(grid)
            THEN [err |-> "IndexError", history |-> h1]
            ELSE IF date = At(grid, ref_idx + 1)
            THEN AlignLoop(grid, rows, idx + 1, ref_idx + 2,
                           Append(h1, [date |-> At(grid, ref_idx + 1),
                                       close |-> At(rows, idx).close]))
            ELSE AlignLoop(grid, rows, idx + 1, ref_idx + 1, h1)

\* Lines 693-714 on the grid (the dates of total_return_history) and the
\* daily rows: the first pair is (start_date, 1.), i.e. start_price itself.
Align(grid, rows) ==
    IF Len(rows) = 0 THEN [err |-> "IndexError", history |-> <<>>]
    ELSE
    LET start_price == rows[1].open
        loop == AlignLoop(grid, rows, 0, 1,
                          <<[date |-> grid[1], close |-> start_price]>>)
        padded == IF Len(loop.history) < Len(grid)
                  THEN Append(loop.history, [date |-> Last(grid),
                                             close |-> Last(rows).close])
                  ELSE loop.history
    IN  IF loop.err # NoError THEN loop
        ELSE IF Len(padded) # Len(grid)
        THEN [err |-> "AssertionError", history |-> padded]
        ELSE [err |-> NoError, history |-> padded]

\* One pass of the loop over tickers (lines 682-716): the benchmark Holding
\* is built, buys one share at the first open on start_date and is
\* summarised; then its prices are aligned with the grid.
GetBenchmarks ==
    /\ ~benchOut.done
    /\ \E h \in NewHoldings \cup {FailedHolding}, price \in 1..MaxPrice :
          LET start_date == benchIn.grid[1]
              trade == [date |-> start_date, ticker |-> "VUAA.L", quantity |-> 1,
                        price |-> benchIn.rows[1].open, action |-> "BUY"]
          IN  \E b \in {TradeOutcome(h, trade)} :
              \E r \in {IF b.err # NoError THEN [err |-> b.err]
                        ELSE Summary(b.h, "VUAA.L", price, "USD", Cache, Fail)} :
              \E a \in {IF r.err # NoError THEN [err |-> r.err, history |-> <<>>]
                        ELSE Align(benchIn.grid, benchIn.rows)} :
                 /\ benchOut' = [done |-> TRUE, err |-> a.err,
                                 summarised |-> r.err = NoError,
                                 history |-> a.history]
                 /\ lastOp' = [op |-> "get_benchmarks", ticker |-> "VUAA.L",
                               err |-> a.err]
    /\ UNCHANGED <<ledgerVars, run, error, cacheVars, twrIn, twrOut, benchIn, sortVars>>

\* A set of dates as the ascending sequence of its elements.
RECURSIVE Ascending(_)
Ascending(set) ==
    IF set = {} THEN <<>>
    ELSE LET m == CHOOSE x \in set : \A y \in set : x <= y
         IN  <<m>> \o Ascending(set \ {m})

\* total_return_history: the valuation dates in order, then today; the daily
\* rows requested from start_date on, none later than today.
InitBench ==
    /\ Start
    /\ twrIn = NoTwr
    /\ twrOut = NotRun
    /\ benchIn \in
          {[grid |-> Append(Ascending(v), Today),
            rows |-> [i \in 1..Cardinality(r) |->
                        [date |-> Ascending(r)[i],
                         open |-> Open(Ascending(r)[i]),
                         close |-> Close(Ascending(r)[i])]]] :
             v \in {x \in SUBSET Dates : x # {} /\ Cardinality(x) <= MaxValuations},
             r \in (SUBSET Dates) \ {{}}}
    /\ \A i \in 1..Len(benchIn.rows) : benchIn.rows[i].date >= benchIn.grid[1]
    /\ benchOut = NotRun
    /\ NoSort
    /\ NoAdjust
    /\ NoAddDividends

NextBench == GetBenchmarks

SpecBench == InitBench /\ [][NextBench]_vars

\* ------------------------------------------------------- combine_and_sort
\* The "date" cell of a sheet row is text: day d of the month is written
\* "0d-.." or "d-..", and "%d" reads both.
DateStrings == {[day |-> d, padded |-> b] : d \in 1..MaxRowDate, b \in BOOLEAN}

\* datetime.strptime(date, "%d-%m-%Y")
Strptime(date) == date.day

\* The rows pull_data hands over: the action is BUY or SELL, the quantity is
\* whatever integer the cell holds.
Transactions ==
    [date : DateStrings, ticker : {"T1", "T2"}, quantity : 0..MaxQty,
     price_per_share : 1..MaxRowPrice, action : Actions]

\* The lists of at most n rows.
TransactionLists(n) == UNION {[1..k -> Transactions] : k \in 0..n}

\* A dict is the sequence of its [key, value] items in insertion order;
\* IndexOf is the place of a key, 0 when the dict does not hold it.
IndexOf(dict, key) ==
    IF \E i \in 1..Len(dict) : dict[i].key = key
    THEN CHOOSE i \in 1..Len(dict) : dict[i].key = key
    ELSE 0

\* {"BUY": [transaction], "SELL": []} or {"BUY": [], "SELL": [transaction]}
FirstOf(transaction) ==
    IF transaction.action = "BUY"
    THEN [BUY |-> <<transaction>>, SELL |-> <<>>]
    ELSE [BUY |-> <<>>, SELL |-> <<transaction>>]

\* One iteration of the first loop (lines 44-59) on the dict `trades`.
Collect(dict, transaction) ==
    LET ti == IndexOf(dict, transaction.ticker)
    IN  IF ti = 0
        THEN Append(dict, [key |-> transaction.ticker,
                           value |-> <<[key |-> transaction.date,
                                        value |-> FirstOf(transaction)]>>])
        ELSE LET di == IndexOf(dict[ti].value, transaction.date)
             IN  IF di = 0
                 THEN [dict EXCEPT ![ti].value =
                          Append(@, [key |-> transaction.date,
                                     value |-> FirstOf(transaction)])]
                 ELSE [dict EXCEPT ![ti].value[di].value[transaction.action] =
                          Append(@, transaction)]

RECURSIVE CollectAll(_, _, _)
CollectAll(dict, transactions, i) ==
    IF i > Len(transactions) THEN dict
    ELSE CollectAll(Collect(dict, transactions[i]), transactions, i + 1)

RECURSIVE Flatten(_)
Flatten(ss) == IF Len(ss) = 0 THEN <<>> ELSE Head(ss) \o Flatten(Tail(ss))

\* The (ticker, date, action) lists in the order the three nested loops of
\* lines 62-65 visit them.
Visits(dict) ==
    Flatten([ti \in 1..Len(dict) |->
        Flatten([di \in 1..Len(dict[ti].value) |->
            <<[ticker |-> dict[ti].key, date |-> dict[ti].value[di].key,
               action |-> "BUY", rows |-> dict[ti].value[di].value.BUY],
              [ticker |-> dict[ti].key, date |-> dict[ti].value[di].key,
               action |-> "SELL", rows |-> dict[ti].value[di].value.SELL]>>])])

Quantity(rows) == SeqSum([i \in 1..Len(rows) |-> rows[i].quantity])

Value(rows) ==
    SeqSum([i \in 1..Len(rows) |-> rows[i].quantity * rows[i].price_per_share])

\* Lines 66-77 for the visits i..; value / quantity is kept as a fraction.
RECURSIVE NetTrades(_, _, _)
NetTrades(visits, i, _trades) ==
    IF i > Len(visits) THEN [err |-> NoError, trades |-> _trades]
    ELSE IF Len(visits[i].rows) = 0 THEN NetTrades(visits, i + 1, _trades)
    ELSE IF Quantity(visits[i].rows) = 0
    THEN [err |-> "ZeroDivisionError", trades |-> _trades]
    ELSE NetTrades(visits, i + 1,
             Append(_trades,
                    [date |-> Strptime(visits[i].date),
                     ticker |-> visits[i].ticker,
                     quantity |-> Quantity(visits[i].rows),
                     price |-> Rat(Value(visits[i].rows), Quantity(visits[i].rows)),
                     action |-> visits[i].action]))

combine_and_sort(transactions) ==
    LET net == NetTrades(Visits(CollectAll(<<>>, transactions, 1)), 1, <<>>)
    IN  IF net.err # NoError THEN [done |-> TRUE, err |-> net.err, trades |-> <<>>]
        ELSE [done |-> TRUE, err |-> NoError,
              trades |-> SortAsc(net.trades, "date")]

\* get_holdings line 285.
CombineAndSortCall ==
    /\ ~csOut.done
    /\ csOut' = combine_and_sort(csIn)
    /\ lastOp' = [op |-> "combine_and_sort", ticker |-> "", err |-> csOut'.err]
    /\ UNCHANGED <<ledgerVars, run, error, cacheVars, returnVars, csIn, adjIn, adjOut,
                   divIn, divOut>>

InitSort ==
    /\ Start
    /\ twrIn = NoTwr
    /\ twrOut = NotRun
    /\ benchIn = NoBench
    /\ benchOut = NotRun
    /\ csIn \in TransactionLists(MaxTransactions)
    /\ csOut = NotRun
    /\ NoAdjust
    /\ NoAddDividends

NextSort == CombineAndSortCall

SpecSort == InitSort /\ [][NextSort]_vars

\* ------------------------------------------------------ split adjustment
\* The two split loops on one snapshot (adjIn.date, adjIn.quantity) and one
\* later date: the replay of buy/sell for a trade of that date (lines 122-128,
\* 144-150) and the loop of _add_dividends for a dividend of that date
\* (lines 180-187), both from the first split.
AdjustCall ==
    /\ ~adjOut.done
    /\ adjOut' = [done |-> TRUE,
                  ledger |-> ReplaySplits(adjIn.splits, 1, adjIn.later,
                                          adjIn.date, adjIn.quantity),
                  dividend |-> DividendSplits(adjIn.splits, 1, 1, adjIn.later,
                                              adjIn.date, adjIn.quantity)]
    /\ lastOp' = [op |-> "adjust", ticker |-> "", err |-> NoError]
    /\ UNCHANGED <<ledgerVars, run, error, cacheVars, returnVars, csIn, csOut, adjIn,
                   divIn, divOut>>

InitAdjust ==
    /\ Start
    /\ twrIn = NoTwr
    /\ twrOut = NotRun
    /\ benchIn = NoBench
    /\ benchOut = NotRun
    /\ NoSort
    /\ adjIn \in {[date |-> d0, quantity |-> q, splits |-> sp, later |-> D] :
                    d0 \in Dates, q \in 1..MaxQty,
                    sp \in SplitListsFrom(1, MaxAdjustSplits), D \in Dates}
    /\ adjIn.later > adjIn.date
    /\ adjOut = NotRun
    /\ NoAddDividends

NextAdjust == AdjustCall

SpecAdjust == InitAdjust /\ [][NextAdjust]_vars

\* ---------------------------------------------- _add_dividends on its own
\* Snapshot lists: ascending dates, at most n snapshots, quantities >= 0.
RECURSIVE SnapshotListsFrom(_, _)
SnapshotListsFrom(lo, n) ==
    IF n = 0 THEN {<<>>}
    ELSE {<<>>} \cup
         UNION {{<<[date |-> d, quantity |-> q]>> \o rest :
                    rest \in SnapshotListsFrom(d + 1, n - 1)} :
                d \in lo..MaxDate, q \in 0..MaxQty}

\* self._add_dividends() (line 200) on the Holding divIn.
AddDividendsCall ==
    /\ ~divOut.done
    /\ \E r \in {AddDividends(divIn)} :
          /\ divOut' = [done |-> TRUE, err |-> r.err, outflows |-> r.outflows]
          /\ lastOp' = [op |-> "_add_dividends", ticker |-> "", err |-> r.err]
    /\ UNCHANGED <<ledgerVars, run, error, cacheVars, returnVars,
                   csIn, csOut, adjIn, adjOut, divIn>>

InitAddDividends ==
    /\ Start
    /\ twrIn = NoTwr
    /\ twrOut = NotRun
    /\ benchIn = NoBench
    /\ benchOut = NotRun
    /\ NoSort
    /\ NoAdjust
    /\ divIn \in {[NewHolding(sp, dv) EXCEPT !.positions = ps, !.outflows = out] :
                    sp \in SplitListsFrom(1, MaxSplits),
                    dv \in DividendListsFrom(1, MaxDividends),
                    ps \in SnapshotListsFrom(1, MaxSnapshots),
                    out \in {<<>>, <<[date |-> MaxDate, value |-> 100]>>}}
    /\ divOut = NotRun

NextAddDividends == AddDividendsCall

SpecAddDividends == InitAddDividends /\ [][NextAddDividends]_vars

\* =================================================================== claims
IsTrade(op) == op \in Actions

\* The snapshot a trade or a dividend of day d finds: the latest one dated
\* before d (0 when there is none).
SnapshotBefore(positions, d) ==
    LET earlier == {i \in 1..Len(positions) : positions[i].date < d}
    IN  IF earlier = {} THEN 0
        ELSE CHOOSE i \in earlier : \A j \in earlier : j <= i

QuantityBefore(positions, d) ==
    IF SnapshotBefore(positions, d) = 0 THEN 0
    ELSE positions[SnapshotBefore(positions, d)].quantity

\* C1: after any sequence of buy/sell calls on one Holding every Position
\* Snapshot quantity is >= 0 (a SELL above the split-adjusted held quantity
\* fails instead of recording a negative quantity).
C1_QuantityNeverNegative ==
    \A t \in DOMAIN holdings :
        \A i \in 1..Len(holdings[t].positions) :
            holdings[t].positions[i].quantity >= 0

\* C2: the ownership periods are in date order and pairwise disjoint (each
\* period but the last is closed, and ends strictly before the next starts),
\* each period starts at the date of a BUY that took the quantity from zero to
\* nonzero, and each closed period ends at the date of the SELL that took the
\* quantity to exactly zero.
C2_PeriodsOrderedDisjoint ==
    \A t \in DOMAIN holdings :
        LET h == holdings[t]
            traded(d, a) == \E k \in 1..Len(trades) :
                               /\ trades[k].ticker = t /\ trades[k].date = d
                               /\ trades[k].action = a
        IN  /\ \A i \in 1..(Len(h.periods) - 1) :
                  /\ h.periods[i].end # None
                  /\ h.periods[i].end < h.periods[i + 1].start
            /\ \A i \in 1..Len(h.periods) :
                  /\ traded(h.periods[i].start, "BUY")
                  /\ QuantityBefore(h.positions, h.periods[i].start) = 0
                  /\ h.periods[i].end # None =>
                        /\ h.periods[i].start <= h.periods[i].end
                        /\ traded(h.periods[i].end, "SELL")
                        /\ \E j \in 1..Len(h.positions) :
                              /\ h.positions[j].date = h.periods[i].end
                              /\ h.positions[j].quantity = 0

\* The splits of h dated in the closed interval [lo, hi].
SplitsWithin(h, lo, hi) ==
    {i \in 1..Len(h.splits) : lo <= h.splits[i].date /\ h.splits[i].date <= hi}

\* C3: when one split of ratio R = num/den is dated strictly between the last
\* snapshot (quantity q) and a later SELL of s shares, the SELL succeeds and
\* leaves q*R - s; a SELL of exactly q*R leaves 0 and closes the period at the
\* sell date.
C3_SplitScalesBeforeSell ==
    (lastOp.op = "SELL" /\ Len(lastOp.before.positions) > 0) =>
        LET b == lastOp.before
            a == holdings[lastOp.ticker]
            p == Last(b.positions)
            tr == lastOp.trade
            within == SplitsWithin(b, p.date, tr.date)
        IN  \A i \in within :
                LET R == b.splits[i].split
                IN  (/\ within = {i}
                     /\ p.date < b.splits[i].date /\ b.splits[i].date < tr.date
                     /\ (p.quantity * R[1]) % R[2] = 0)
                    => /\ lastOp.err = NoError
                       /\ Last(a.positions).date = tr.date
                       /\ Last(a.positions).quantity * R[2]
                            = p.quantity * R[1] - tr.quantity * R[2]
                       /\ (tr.quantity * R[2] = p.quantity * R[1])
                            => /\ Last(a.positions).quantity = 0
                               /\ Last(a.periods).end = tr.date

C3_Witness ==
    /\ lastOp.op = "SELL" /\ lastOp.err = NoError
    /\ Len(lastOp.before.positions) > 0
    /\ LET b == lastOp.before
           p == Last(b.positions)
           tr == lastOp.trade
       IN  /\ p.quantity > 0
           /\ \E i \in 1..Len(b.splits) :
                 /\ SplitsWithin(b, p.date, tr.date) = {i}
                 /\ p.date < b.splits[i].date /\ b.splits[i].date < tr.date
                 /\ b.splits[i].split = <<2, 1>>
                 /\ tr.quantity = 2 * p.quantity
    /\ Last(holdings[lastOp.ticker].periods).end = lastOp.trade.date

\* A BUY of q on a flat holding immediately followed by a SELL of q on a
\* later date: the last two trades of the ticker, seen from after the SELL.
BuyThenSellSame ==
    /\ lastOp.op = "SELL"
    /\ Len(trades) >= 2
    /\ LET b == lastOp.before
           buy == trades[Len(trades) - 1]
           sell == lastOp.trade
       IN  /\ buy.action = "BUY" /\ buy.ticker = sell.ticker
           /\ buy.quantity = sell.quantity /\ buy.date < sell.date
           /\ Len(b.positions) > 0
           /\ Last(b.positions) = [date |-> buy.date, quantity |-> buy.quantity]
           /\ (Len(b.positions) = 1
                 \/ b.positions[Len(b.positions) - 1].quantity = 0)

OnePeriodClosed ==
    LET b == lastOp.before
        a == holdings[lastOp.ticker]
        buy == trades[Len(trades) - 1]
    IN  /\ lastOp.err = NoError
        /\ Len(a.periods) = Len(b.periods)
        /\ Len(b.periods) > 0
        /\ Last(b.periods) = [start |-> buy.date, end |-> None]
        /\ Last(a.periods) = [start |-> buy.date, end |-> lastOp.trade.date]

\* C4 as stated: a BUY of q on a flat holding immediately followed by a SELL
\* of q on a later date produces exactly one period, closed, from the buy date
\* to the sell date.
C4_BuySellOnePeriod == BuyThenSellSame => OnePeriodClosed

\* C4 as amended: the same, provided no split is dated from the buy date to
\* the sell date (both included).
C4_BuySellOnePeriodNoSplit ==
    (/\ BuyThenSellSame
     /\ SplitsWithin(lastOp.before, trades[Len(trades) - 1].date,
                     lastOp.trade.date) = {})
        => OnePeriodClosed

C4_Witness ==
    /\ BuyThenSellSame
    /\ Len(lastOp.before.splits) > 0
    /\ SplitsWithin(lastOp.before, trades[Len(trades) - 1].date,
                    lastOp.trade.date) = {}
    /\ OnePeriodClosed

\* The quantity q of a snapshot of day lo as held on day hi: scaled, in date
\* order, by every split dated after lo and before hi.
RECURSIVE SplitAdjusted(_, _, _, _)
SplitAdjusted(splits, lo, hi, q) ==
    IF splits = <<>> THEN q
    ELSE SplitAdjusted(Tail(splits), lo, hi,
                       IF lo < Head(splits).date /\ Head(splits).date < hi
                       THEN IntMul(q, Head(splits).split) ELSE q)

\* The Outflows the dividends k.. of h are due: one for each dividend that
\* finds a positive quantity, worth amount x adjusted quantity x 0.85.
RECURSIVE DueDividends(_, _)
DueDividends(h, k) ==
    IF k > Len(h.dividends) THEN <<>>
    ELSE LET d == h.dividends[k]
             i == SnapshotBefore(h.positions, d.date)
         IN  (IF i # 0 /\ h.positions[i].quantity > 0
              THEN <<[date |-> d.date,
                      value |-> SplitAdjusted(h.splits, h.positions[i].date, d.date,
                                              h.positions[i].quantity)
                                * d.dividend * 85]>>
              ELSE <<>>)
             \o DueDividends(h, k + 1)

C6_AverageCapitalNonzero ==
    lastOp.op = "summary" =>
        \A i \in 1..Len(lastOp.stats) : lastOp.stats[i].avgCapLen # 0

\* The valuations in date order (their dates are distinct).
ByDate(s) ==
    [i \in 1..Len(s) |->
        CHOOSE x \in {s[k] : k \in 1..Len(s)} :
            Cardinality({k \in 1..Len(s) : s[k].date < x.date}) = i - 1]

RECURSIVE Product(_)
Product(s) == IF Len(s) = 0 THEN 1 ELSE s[1] * Product(Tail(s))

\* C7: for a non-empty valuation series v_0..v_n in date order and current
\* value c, the linked factor is the product over i = 1..n of
\* value_i / (value_(i-1) + flow_(i-1)), times c / (value_n + flow_n); with
\* every flow 0 it is c / value_0; valuations 100, 110 and c = 121 give
\* twr% = 21.0.
C7_TwrLinkedFactor ==
    (twrOut.done /\ Len(twrIn.valuations) > 0 /\ twrOut.err = NoError) =>
        LET v == ByDate(twrIn.valuations)
            n == Len(v)
            c == twrIn.current_value
        IN  /\ twrOut.twr =
                  Rat(Product([i \in 1..n |-> IF i < n THEN v[i + 1].value ELSE c]),
                      Product([i \in 1..n |-> v[i].value + v[i].flow]))
            /\ (\A i \in 1..n : v[i].flow = 0)
                  => twrOut.twr[1] * v[1].value = c * twrOut.twr[2]
            /\ (/\ n = 2 /\ c = 121
                /\ v[1].value = 100 /\ v[1].flow = 0
                /\ v[2].value = 110 /\ v[2].flow = 0)
                  => twrOut.pct10 = 210

C7_Witness ==
    /\ twrOut.done /\ twrOut.err = NoError
    /\ twrIn = [valuations |-> <<[date |-> 2, value |-> 110, flow |-> 0],
                                 [date |-> 1, value |-> 100, flow |-> 0]>>,
                current_value |-> 121]
    /\ twrOut.pct10 = 210
    /\ twrOut.twr = <<121, 100>>

\* C8: for any grid of N dates and any non-empty benchmark price series that
\* overlaps it, the alignment ends without error with exactly N pairs (its
\* final length check holds).
C8_AlignmentLength ==
    (benchOut.done /\ benchOut.summarised) =>
        /\ benchOut.err = NoError
        /\ Len(benchOut.history) = Len(benchIn.grid)

\* C9: over any sequence of exchange_rate calls of one run the provider is
\* asked at most once per non-USD currency and never for USD, every call for
\* a currency returns the value fetched first, and a call for USD returns 1.0
\* and leaves the cache as it was.
C9_OneLookupPerCurrency ==
    /\ \A c \in Currencies : queries[c] <= 1
    /\ queries["USD"] = 0
    /\ "USD" \notin DOMAIN rates
    /\ (lastOp.op = "exchange_rate" /\ lastOp.err = NoError) =>
          IF lastOp.currency = "USD"
          THEN lastOp.value = 1 /\ Cache = lastOp.before
          ELSE lastOp.value = fetched[lastOp.currency]

C9_Witness ==
    /\ lastOp.op = "exchange_rate" /\ lastOp.err = NoError
    /\ lastOp.currency = "EUR"
    /\ "EUR" \in DOMAIN lastOp.before.rates
    /\ queries["EUR"] = 1
    /\ queries["GBP"] = 1
    /\ calls >= 4

\* An instrument whose constructor, trades and summary raised nothing.
Unfailed(t) == t \in DOMAIN holdings /\ error.ticker # t

\* C10: an error scoped to one instrument aborts only that instrument's
\* summary: once get_holdings is over, the summary of every other instrument
\* is in the lists it returns.
C10_ErrorScopedToInstrument ==
    (run \in {"returned", "aborted"} /\ error.ticker # "") =>
        \A t \in DOMAIN holdings :
            Unfailed(t) =>
                \E i \in 1..Len(result.current \o result.historical) :
                    (result.current \o result.historical)[i].ticker = t

\* The rows of the sheet for ticker t, calendar day d and action a.
RowsOf(t, d, a) ==
    SelectSeq(csIn, LAMBDA x : x.ticker = t /\ Strptime(x.date) = d /\ x.action = a)

\* The places of the returned list that hold a trade of (t, d, a).
TradesOf(t, d, a) ==
    {i \in 1..Len(csOut.trades) :
        /\ csOut.trades[i].ticker = t /\ csOut.trades[i].date = d
        /\ csOut.trades[i].action = a}

\* C11: for any list of BUY/SELL transactions combine_and_sort returns
\* exactly one Trade per non-empty (ticker, date, action) group, whose
\* quantity is the sum of the group's quantities and whose price x quantity
\* is the sum of quantity_i x price_i, and the list is in non-decreasing date
\* order.
C11_OneTradePerGroup ==
    csOut.done =>
        /\ csOut.err = NoError
        /\ \A t \in {"T1", "T2"}, d \in 1..MaxRowDate, a \in Actions :
              IF Len(RowsOf(t, d, a)) = 0 THEN TradesOf(t, d, a) = {}
              ELSE /\ Cardinality(TradesOf(t, d, a)) = 1
                   /\ \A i \in TradesOf(t, d, a) :
                         /\ csOut.trades[i].quantity = Quantity(RowsOf(t, d, a))
                         /\ csOut.trades[i].price[1] * csOut.trades[i].quantity
                              = Value(RowsOf(t, d, a)) * csOut.trades[i].price[2]
        /\ \A i, j \in 1..Len(csOut.trades) :
              i < j => csOut.trades[i].date <= csOut.trades[j].date

\* The quantity q of a snapshot of day lo scaled, in date order, by every
\* split dated after lo and not after hi.
RECURSIVE SplitAdjustedUpTo(_, _, _, _)
SplitAdjustedUpTo(splits, lo, hi, q) ==
    IF splits = <<>> THEN q
    ELSE SplitAdjustedUpTo(Tail(splits), lo, hi,
                           IF lo < Head(splits).date /\ Head(splits).date <= hi
                           THEN IntMul(q, Head(splits).split) ELSE q)

\* The last call was a BUY while HELD, or a SELL, dated after the last
\* snapshot.
LaterTrade ==
    /\ IsTrade(lastOp.op)
    /\ Len(lastOp.before.positions) > 0
    /\ lastOp.trade.date > Last(lastOp.before.positions).date
    /\ lastOp.op = "BUY" => Last(lastOp.before.positions).quantity # 0

Signed(trade) == IF trade.action = "BUY" THEN trade.quantity ELSE -trade.quantity

\* C12 as stated: on a BUY while HELD, or a SELL, dated after the last
\* snapshot the carried quantity is the snapshot quantity scaled by every
\* split dated in (last snapshot date, trade date], the trade date included,
\* and by no other split.
C12_ReplayUpToTradeDate ==
    LaterTrade =>
        LET b == lastOp.before
            p == Last(b.positions)
            tr == lastOp.trade
        IN  /\ lastOp.err = NoError
            /\ Last(holdings[lastOp.ticker].positions) =
                  [date |-> tr.date,
                   quantity |-> SplitAdjustedUpTo(b.splits, p.date, tr.date, p.quantity)
                                + Signed(tr)]

\* C12 as amended: the carried quantity is the snapshot quantity scaled by
\* every split dated strictly between the last snapshot date and the trade
\* date, and by no other split; a split dated on the trade date or on the
\* last snapshot date makes the trade fail with an AssertionError and leaves
\* the holding as it was.
C12_ReplayStrictlyBetween ==
    LaterTrade =>
        LET b == lastOp.before
            p == Last(b.positions)
            tr == lastOp.trade
        IN  IF \E i \in 1..Len(b.splits) : b.splits[i].date \in {p.date, tr.date}
            THEN /\ lastOp.err = "AssertionError"
                 /\ holdings[lastOp.ticker] = b
            ELSE /\ lastOp.err = NoError
                 /\ Last(holdings[lastOp.ticker].positions) =
                       [date |-> tr.date,
                        quantity |-> SplitAdjusted(b.splits, p.date, tr.date, p.quantity)
                                     + Signed(tr)]

C12_Witness ==
    /\ LaterTrade
    /\ lastOp.op = "BUY" /\ lastOp.err = NoError
    /\ LET b == lastOp.before
           p == Last(b.positions)
           tr == lastOp.trade
       IN  /\ p.quantity = 1
           /\ \E i \in 1..Len(b.splits) :
                 /\ p.date < b.splits[i].date /\ b.splits[i].date < tr.date
                 /\ b.splits[i].split = <<2, 1>>
           /\ Last(holdings[lastOp.ticker].positions).quantity = 2 + tr.quantity

\* The latest snapshot dated on day d or before it (0 when there is none).
SnapshotNotAfter(positions, d) ==
    LET upTo == {i \in 1..Len(positions) : positions[i].date <= d}
    IN  IF upTo = {} THEN 0
        ELSE CHOOSE i \in upTo : \A j \in upTo : j <= i

\* The Outflows _add_dividends added for the dividend of day d.
AddedOn(d) ==
    {i \in (Len(holdings[lastOp.ticker].outflows) + 1)..Len(lastOp.added) :
        lastOp.added[i].date = d}

\* The dividend of day d was paid on the quantity of snapshot i of h (on
\* nothing when i is 0 or the snapshot holds no share).
PaidOn(h, dividend, i) ==
    IF i = 0 \/ h.positions[i].quantity <= 0 THEN AddedOn(dividend.date) = {}
    ELSE /\ Cardinality(AddedOn(dividend.date)) = 1
         /\ \A k \in AddedOn(dividend.date) :
               lastOp.added[k].value =
                   SplitAdjusted(h.splits, h.positions[i].date, dividend.date,
                                 h.positions[i].quantity)
                   * dividend.dividend * (100 - WITHHOLDING_TAX_RATE)

\* C13 as stated: for every dividend the quantity _add_dividends uses is that
\* of the snapshot with the latest date not after the dividend date (a
\* snapshot dated on the dividend date is the one used); a quantity of 0
\* gives no Outflow.
C13_SnapshotNotAfterDividend ==
    (lastOp.op = "summary" /\ lastOp.err # "AssertionError") =>
        LET h == holdings[lastOp.ticker]
        IN  \A k \in 1..Len(h.dividends) :
                PaidOn(h, h.dividends[k],
                       SnapshotNotAfter(h.positions, h.dividends[k].date))

\* C13 as amended: the quantity used is that of the snapshot with the latest
\* date strictly before the dividend date (a snapshot dated on the dividend
\* date is not used); no such snapshot, or one whose quantity is not
\* positive, gives no Outflow.
C13_SnapshotBeforeDividend ==
    (lastOp.op = "summary" /\ lastOp.err # "AssertionError") =>
        LET h == holdings[lastOp.ticker]
        IN  \A k \in 1..Len(h.dividends) :
                PaidOn(h, h.dividends[k],
                       SnapshotBefore(h.positions, h.dividends[k].date))

C13_Witness ==
    /\ lastOp.op = "summary" /\ lastOp.err = NoError
    /\ LET h == holdings[lastOp.ticker]
       IN  /\ h.positions = <<[date |-> 1, quantity |-> 1], [date |-> 2, quantity |-> 2]>>
           /\ h.splits = <<>>
           /\ h.dividends = <<[date |-> 2, dividend |-> 1]>>
           /\ lastOp.added = <<[date |-> 2, value |-> 85]>>

\* C14 as stated: for any snapshot (d0, q), any ordered split list and any
\* date D > d0 the quantity _add_dividends uses for a dividend dated D equals
\* the carried quantity buy/sell compute for a trade dated D: both apply the
\* splits after d0 with date <= D.
C14_SameSplitsUpTo ==
    adjOut.done =>
        /\ adjOut.ledger.err = NoError /\ adjOut.dividend.err = NoError
        /\ adjOut.ledger.quantity = adjOut.dividend.quantity
        /\ adjOut.dividend.quantity =
              SplitAdjustedUpTo(adjIn.splits, adjIn.date, adjIn.later, adjIn.quantity)

\* A split of adjIn is dated on day d.
SplitOn(d) == \E i \in 1..Len(adjIn.splits) : adjIn.splits[i].date = d

\* C14 as amended: with no split dated on d0 or on D both quantities are q
\* scaled by the splits dated strictly between d0 and D.  A split dated on d0
\* makes both fail on an assertion; otherwise a split dated on D makes the
\* trade fail on an assertion while the dividend is paid on the quantity
\* scaled by the splits strictly between d0 and D.
C14_SameSplitsStrictlyBetween ==
    adjOut.done =>
        LET between == SplitAdjusted(adjIn.splits, adjIn.date, adjIn.later,
                                     adjIn.quantity)
        IN  IF SplitOn(adjIn.date)
            THEN /\ adjOut.ledger.err = "AssertionError"
                 /\ adjOut.dividend.err = "AssertionError"
            ELSE /\ adjOut.dividend.err = NoError
                 /\ adjOut.dividend.quantity = between
                 /\ IF SplitOn(adjIn.later)
                    THEN adjOut.ledger.err = "AssertionError"
                    ELSE /\ adjOut.ledger.err = NoError
                         /\ adjOut.ledger.quantity = between

C14_Witness ==
    /\ adjOut.done
    /\ adjOut.ledger = [err |-> NoError, quantity |-> 2 * adjIn.quantity]
    /\ adjOut.dividend.err = NoError
    /\ adjOut.dividend.quantity = 2 * adjIn.quantity
    /\ Len(adjIn.splits) = 2
    /\ adjIn.splits[1].split = <<2, 1>>
    /\ adjIn.date < adjIn.splits[1].date /\ adjIn.splits[1].date < adjIn.later
    /\ adjIn.later < adjIn.splits[2].date

\* The rows of the price series dated on day d or before it.
RowsUpTo(d) == {i \in 1..Len(benchIn.rows) : benchIn.rows[i].date <= d}

\* The close of the latest trading day not after day d.
LatestClose(d) ==
    benchIn.rows[CHOOSE i \in RowsUpTo(d) : \A j \in RowsUpTo(d) : j <= i].close

\* C15: the pairs get_benchmarks returns carry exactly the grid dates in
\* order, the first with the value 1.0 (the first open over itself), and each
\* later grid date with the close of the latest trading day not after it -
\* also when two or more grid dates fall between two consecutive trading
\* days.
C15_CloseCarriedForward ==
    (benchOut.done /\ benchOut.summarised) =>
        /\ benchOut.err = NoError
        /\ Len(benchOut.history) = Len(benchIn.grid)
        /\ benchOut.history[1] = [date |-> benchIn.grid[1],
                                  close |-> benchIn.rows[1].open]
        /\ \A k \in 2..Len(benchIn.grid) :
              /\ benchOut.history[k].date = benchIn.grid[k]
              /\ RowsUpTo(benchIn.grid[k]) # {}
                    => benchOut.history[k].close = LatestClose(benchIn.grid[k])

\* The periods in whose gain summary() counted inflow i, and outflow i.
PeriodsOfInflow(i) ==
    {p \in 1..Len(lastOp.stats) : i \in lastOp.stats[p].counted_in}

PeriodsOfOutflow(i) ==
    {p \in 1..Len(lastOp.stats) : i \in lastOp.stats[p].counted_out}

\* C16: when summary() has gone through the periods of a holding, every
\* recorded inflow and every recorded outflow (sale proceeds or net dividend)
\* is counted in the gain of exactly one period, also a BUY dated on the
\* closing date of a period and a SELL dated on its opening date.
C16_EveryFlowCountedOnce ==
    (lastOp.op = "summary" /\ lastOp.err = NoError) =>
        /\ \A i \in 1..Len(holdings[lastOp.ticker].inflows) :
              Cardinality(PeriodsOfInflow(i)) = 1
        /\ \A i \in 1..Len(lastOp.added) :
              Cardinality(PeriodsOfOutflow(i)) = 1

\* The last snapshot quantity of h as held today: scaled by every split dated
\* after the last trade and not after today.
CurrentQuantity(h) ==
    SplitAdjustedUpTo(h.splits, Last(h.positions).date, Today,
                      Last(h.positions).quantity)

\* The rate summary() obtained for the currency of the holding.
RateOf(currency) == IF currency = "USD" THEN 1 ELSE rates[currency]

\* C17: for a holding whose last period is open, the quantity summary()
\* values at the latest quoted price, in the synthetic outflow dated today
\* and in current_value_usd, is the current split-adjusted quantity.
C17_CurrentQuantitySplitAdjusted ==
    (/\ lastOp.op = "summary" /\ lastOp.err = NoError
     /\ Last(holdings[lastOp.ticker].periods).end = None) =>
        LET h == holdings[lastOp.ticker]
        IN  /\ Last(lastOp.outflows) =
                  [date |-> Now, value |-> CurrentQuantity(h) * lastOp.price * 100]
            /\ Last(summaries).current_value_usd =
                  CurrentQuantity(h) * lastOp.price * RateOf(lastOp.currency)

\* Some SELL among the trades s[k..], applied in turn to holding h, takes
\* more than is held (a SELL on a holding with no snapshot included).
RECURSIVE Oversold(_, _, _)
Oversold(h, s, k) ==
    IF k > Len(s) THEN FALSE
    ELSE LET r == TradeOutcome(h, s[k])
         IN  IF r.err = "IndexError" THEN TRUE
             ELSE IF r.err # NoError THEN FALSE
             ELSE IF s[k].action = "SELL" /\ Last(r.h.positions).quantity < 0
                  THEN TRUE
             ELSE Oversold(r.h, s, k + 1)

\* No SELL of ticker t so far exceeded the held quantity.
NoOversell(t) ==
    ~Oversold(NewHolding(holdings[t].splits, holdings[t].dividends),
              SelectSeq(trades, LAMBDA x : x.ticker = t), 1)

\* C18: after a chronological trade sequence in which no SELL exceeds the
\* held quantity, at most one period of a holding is open and it is the last
\* one, the is_current flag of its summary is true exactly when that last
\* period is open, and a holding get_holdings returns as historical has a
\* latest_sell date.
C18_OpenPeriodIsLastAndCurrent ==
    \A t \in DOMAIN holdings :
        NoOversell(t) =>
            /\ \A i \in 1..(Len(holdings[t].periods) - 1) :
                  holdings[t].periods[i].end # None
            /\ \A i \in 1..Len(summaries) :
                  summaries[i].ticker = t =>
                      (summaries[i].is_current
                          <=> Last(holdings[t].periods).end = None)
            /\ \A i \in 1..Len(result.historical) :
                  result.historical[i].ticker = t =>
                      result.historical[i].latest_sell # None

C18_Witness ==
    /\ run = "returned"
    /\ "T1" \in DOMAIN holdings
    /\ NoOversell("T1")
    /\ Len(holdings["T1"].periods) = 2
    /\ holdings["T1"].periods[1].end # None
    /\ Last(holdings["T1"].periods).end # None
    /\ Len(result.historical) = 1
    /\ result.historical[1].latest_sell = Last(holdings["T1"].periods).end

\* C19: in the list combine_and_sort returns, of two trades of one ticker
\* and one date the BUY comes before the SELL, and the trades of each ticker
\* (in the order get_holdings hands them to the ticker's Holding) are in
\* non-decreasing date order whatever the order of the rows.
C19_BuyBeforeSellSameDay ==
    (csOut.done /\ csOut.err = NoError) =>
        \A i, j \in 1..Len(csOut.trades) :
            (i < j /\ csOut.trades[i].ticker = csOut.trades[j].ticker) =>
                /\ csOut.trades[i].date <= csOut.trades[j].date
                /\ csOut.trades[i].date = csOut.trades[j].date
                      => ~(/\ csOut.trades[i].action = "SELL"
                           /\ csOut.trades[j].action = "BUY")

\* C20 as stated: _add_dividends returns without error for every ascending
\* dividend list, snapshot list and split list, an empty snapshot list and
\* one that ends before the dividends included, and keeps the recorded sale
\* outflows (they head the list it returns, self._outflows is not touched).
C20_AddDividendsNeverFails ==
    divOut.done =>
        /\ divOut.err = NoError
        /\ Len(divOut.outflows) >= Len(divIn.outflows)
        /\ SubSeq(divOut.outflows, 1, Len(divIn.outflows)) = divIn.outflows

\* Some dividend is paid on a snapshot that a split is dated on.
SplitOnPaidSnapshot(h) ==
    \E k \in 1..Len(h.dividends) :
        LET i == SnapshotBefore(h.positions, h.dividends[k].date)
        IN  /\ i # 0
            /\ h.positions[i].quantity > 0
            /\ \E j \in 1..Len(h.splits) : h.splits[j].date = h.positions[i].date

\* C20 as amended: _add_dividends returns without error, the recorded sale
\* outflows heading the list it returns, unless a split is dated on the date
\* of a snapshot of positive quantity on which a dividend is to be paid: then
\* it fails on its assertion.
C20_AddDividendsFailsOnlyOnSplitDay ==
    divOut.done =>
        IF SplitOnPaidSnapshot(divIn)
        THEN divOut.err = "AssertionError"
        ELSE /\ divOut.err = NoError
             /\ Len(divOut.outflows) >= Len(divIn.outflows)
             /\ SubSeq(divOut.outflows, 1, Len(divIn.outflows)) = divIn.outflows

C20_Witness ==
    /\ divOut.done /\ divOut.err = NoError
    /\ divIn.positions = <<[date |-> 1, quantity |-> 1]>>
    /\ divIn.splits = <<[date |-> 3, split |-> <<2, 1>>]>>
    /\ Len(divIn.dividends) = 2
    /\ divOut.outflows = <<[date |-> MaxDate, value |-> 100],
                           [date |-> 2, value |-> 85], [date |-> 4, value |-> 170]>>

\* C21: when two computations call the exchange-rate cache for the same
\* missing currency and interleave between the miss and the write (no
\* provider lookup failing), the provider is still asked only once for that
\* currency and both obtain the same rate.
C21_SingleWriterPerKey ==
    (\A c \in Computations : callers[c].err = NoError) =>
        /\ \A currency \in Currencies : queries[currency] <= 1
        /\ \A c, d \in Computations :
              (/\ callers[c].pc = "done" /\ callers[d].pc = "done"
               /\ callers[c].currency = callers[d].currency)
                  => callers[c].value = callers[d].value

====
